---- MODULE Spec2Model ----
(***************************************************************************)
(* Model of src/py/generator_merge_service.py: CandidateGeneratorService,  *)
(* the merge and admission-control stage between candidate generators and  *)
(* the late-stage / early-stage rankers.                                   *)
(*                                                                         *)
(* Numbers.  The code computes with floats; the model uses fixed point.    *)
(* Scores are in hundredths, weights in tenths, 1/log2(n) in thousandths,  *)
(* and value estimates and the threshold in 1/10000 (so 1.42 is 14200).    *)
(***************************************************************************)
EXTENDS Integers, Sequences, FiniteSets, TLC

\* ------------------------------------------------------------------ bounds
MaxNumLsr == 2
MaxBatch == 2
MaxNumEsr == 2

\* The most results one thread delivers in the concurrent model.
MaxThreadResults == 2

\* The most items that arrive in the example configuration.
MaxArrivals == 13

\* ------------------------------------------- the example usage's arguments
ExampleMaxNumLsr == 10
ExampleThreshold == 11000
ExampleMaxNumEsr == 5
ExampleBatchSize == 3

\* ------------------------------------------------------------ input domains
Items == {"a", "b", "c"}
Generators == {1, 3}
Thresholds == {14200}

\* The results generators deliver, as (generator_id, rank, score) with the
\* score in hundredths.  Their estimates are 1.42 (equal to the threshold),
\* 2.9 (above it) and -0.369 (negative).
Results ==
    {<<1, 1, 90>>, <<3, 1, 90>>, <<3, 2, -200>>}

\* The callers, items and results of the concurrent model.
Threads == {1, 2}
ConcItems == {"a", "b"}
ConcGenerators == {3}
ConcResults == {<<3, 1, 90>>}

\* The results of the example configuration: that of item_1 of the example
\* usage (line 122), whose estimate 1.42 is above the threshold 1.1.
ExampleGenerators == {1}
ExampleResults ==
    {<<1, 1, 90>>}

\* The arguments of the model without input validation: sizes the
\* constructor is handed (non-positive ones included) and results whose rank
\* is 0, 1 or 2, for a generator with weights and one without.
AnySizes == {-1, 0, 1}
AnyRankItems == {"a", "b"}
AnyRankResults ==
    {<<1, 0, 90>>, <<1, 1, 90>>, <<1, 2, 90>>,
     <<3, 0, 90>>, <<3, 1, 90>>, <<3, 2, 90>>}

\* ------------------------------------------------------------------ helpers
Range(s) == {s[i] : i \in 1..Len(s)}

Max(a, b) == IF a >= b THEN a ELSE b

Min(a, b) == IF a <= b THEN a ELSE b

\* A Python dict is modelled as the sequence of its (key, value) pairs in
\* insertion order, which is the order dict.items() iterates in.
Keys(d) == {d[i][1] : i \in 1..Len(d)}

\* dict.get(k, default)
Get(d, k, default) ==
    IF k \in Keys(d)
    THEN LET i == CHOOSE j \in 1..Len(d) : d[j][1] = k IN d[i][2]
    ELSE default

\* d[k] = v : an existing key keeps its position, a new key goes last.
Put(d, k, v) ==
    IF k \in Keys(d)
    THEN [i \in 1..Len(d) |-> IF d[i][1] = k THEN <<k, v>> ELSE d[i]]
    ELSE Append(d, <<k, v>>)

\* s[:k] of Python, for any integer k.
Slice(s, k) ==
    IF k >= 0
    THEN SubSeq(s, 1, Min(k, Len(s)))
    ELSE SubSeq(s, 1, Max(Len(s) + k, 0))

\* ------------------------------------------------------------------- scorer
\* The weights of the example configuration, in tenths; an unlisted
\* generator gets the default of weights.get(generator_id, (1.0, 1.0, 1.0)).
weights ==
    [g \in {1, 2} |-> IF g = 1 THEN <<5, 8, 2>> ELSE <<7, 5, 3>>]

WeightsGet(generator_id) ==
    IF generator_id \in DOMAIN weights
    THEN weights[generator_id]
    ELSE <<10, 10, 10>>

\* 1 / log2(n) in thousandths, rounded to nearest, for the arguments the
\* model's ranks produce.
InvLog2(n) ==
    CASE n = 2 -> 1000
      [] n = 3 -> 631
      [] n = 4 -> 500
      [] n = 5 -> 431

\* A variant of calculate_user_value_estimate whose floor is 3, which gives
\* rank 1 the denominator of rank 2.
calculate_user_value_estimate_FloorThree(generator_id, rank, score) ==
    LET w == WeightsGet(generator_id)
    IN  w[1] * InvLog2(Max(1 + rank, 3)) + w[2] * score * 10 + w[3] * 1000

\* Line 83: w0 * 1 / log2(max(1 + rank, 2)) + w1 * score + w2.
calculate_user_value_estimate(generator_id, rank, score) ==
    LET w == WeightsGet(generator_id)
    IN  w[1] * InvLog2(Max(1 + rank, 2)) + w[2] * score * 10 + w[3] * 1000

\* -------------------------------------------------------------------- state
VARIABLES
    max_num_lsr,                \* self.max_num_lsr
    lsr_sufficiency_threshold,  \* self.lsr_sufficiency_threshold
    max_num_esr,                \* self.max_num_esr
    lsr_batch_size,             \* self.lsr_batch_size
    uv_dict,                    \* self.uv_dict, as (item_id, value) pairs
    num_lsr_sent,               \* self.num_lsr_sent
    items_waiting_for_lsr,      \* self.items_waiting_for_lsr
    already_sent,               \* the keys of self.already_sent
    lsr_out,                    \* the batches handed to the late-stage ranker
    esr_out,                    \* the lists the step just taken handed to the
                                \* early-stage ranker
    esr_items,                  \* history: the items ever handed to it
    pc,                         \* "idle"; "loop" inside OnGeneratorCompletion;
                                \* "send" at the call of line 67
    generator_id,               \* the generator of the call in progress, else 0
    outcome,                    \* history: the path the last result took,
                                \* "rejected" (the test of line 53 failed),
                                \* "ignored" (enqueue did nothing), "queued"
                                \* or "flushed"; "none" before any result
    max_computed,               \* history: item_id -> the largest estimate
                                \* computed for it so far (absent if none)
    threads                     \* the callers' frames of the concurrent model

config == <<max_num_lsr, lsr_sufficiency_threshold, max_num_esr, lsr_batch_size>>

service == <<uv_dict, num_lsr_sent, items_waiting_for_lsr, already_sent>>

vars == <<config, service, lsr_out, esr_out, esr_items, pc, generator_id, outcome,
          max_computed, threads>>

\* --------------------------------------------------------------- operations
\* Variants of MergedValue: one that adds the estimate to the stored value,
\* one that overwrites the stored value with the estimate.
MergedValue_Sum(d, item_id, uv_estimate) ==
    Get(d, item_id, 0) + uv_estimate

MergedValue_Last(d, item_id, uv_estimate) ==
    uv_estimate

\* Line 51: the value stored for item_id after a result is merged in.
MergedValue(d, item_id, uv_estimate) ==
    Max(Get(d, item_id, 0), uv_estimate)

\* A variant of AdmissionTest that does not look at already_sent.
AdmissionTest_NoSentCheck(uv_estimate, threshold, item_id, sent) ==
    uv_estimate > threshold

\* A variant of AdmissionTest that lets an estimate equal to the threshold
\* through.
AdmissionTest_AtLeast(uv_estimate, threshold, item_id, sent) ==
    uv_estimate >= threshold /\ item_id \notin sent

\* Lines 53-56: whether OnGeneratorCompletion passes the item on to
\* enqueue_for_late_stage_ranker.
AdmissionTest(uv_estimate, threshold, item_id, sent) ==
    uv_estimate > threshold /\ item_id \notin sent

\* Variants of EnqueueTest: one that counts the queued items against the
\* ceiling, one that forgets the membership test, one that is off by one.
EnqueueTest_Projected(num_sent, max_num, item_id, queue) ==
    num_sent + Len(queue) < max_num /\ item_id \notin Range(queue)

EnqueueTest_NoDedup(num_sent, max_num, item_id, queue) ==
    num_sent < max_num

EnqueueTest_OffByOne(num_sent, max_num, item_id, queue) ==
    num_sent <= max_num /\ item_id \notin Range(queue)

\* A variant of EnqueueTest that does not look at the ceiling.
EnqueueTest_NoBudget(num_sent, max_num, item_id, queue) ==
    item_id \notin Range(queue)

\* Lines 60-63: whether enqueue_for_late_stage_ranker appends the item.
EnqueueTest(num_sent, max_num, item_id, queue) ==
    num_sent < max_num /\ item_id \notin Range(queue)

\* A variant of FlushTest that waits for one item more.
FlushTest_Late(queue, batch_size) ==
    Len(queue) > batch_size

\* A variant of FlushTest that fires one item early.
FlushTest_Early(queue, batch_size) ==
    Len(queue) >= batch_size - 1

\* Line 66: whether the append is followed by send_to_late_stage_ranker.
FlushTest(queue, batch_size) ==
    Len(queue) >= batch_size

\* Lines 70-74: items_to_send, the queue in order without the items already
\* sent; each item taken is marked sent at once, so a repeat is dropped too.
RECURSIVE ItemsToSend(_, _)
ItemsToSend(queue, sent) ==
    IF queue = <<>>
    THEN <<>>
    ELSE IF Head(queue) \in sent
         THEN ItemsToSend(Tail(queue), sent)
         ELSE <<Head(queue)>> \o ItemsToSend(Tail(queue), sent \cup {Head(queue)})

\* A variant of SentAfterSend that does not record the items sent.
SentAfterSend_NoMark(queue, sent) ==
    sent

\* A variant of SentAfterSend that keeps only the items of this batch.
SentAfterSend_Only(queue, sent) ==
    Range(ItemsToSend(queue, sent))

\* Line 74: already_sent after the loop of send_to_late_stage_ranker.
SentAfterSend(queue, sent) ==
    sent \cup Range(ItemsToSend(queue, sent))

\* A variant of CountSent that counts batches, not items.
CountSent_Batches(num_sent, items_to_send) ==
    num_sent + 1

\* Line 77: the counter after a dispatch of items_to_send.
CountSent(num_sent, items_to_send) ==
    num_sent + Len(items_to_send)

\* A variant of QueueAfterSend that leaves the queue as it is.
QueueAfterSend_Keep(queue) ==
    queue

\* Line 78: the queue after send_to_late_stage_ranker.
QueueAfterSend(queue) ==
    <<>>

\* Line 87: sorted(..., key=value, reverse=True) is stable: pairs of equal
\* value keep the dict's insertion order.
RECURSIVE InsertDesc(_, _)
InsertDesc(sorted, p) ==
    IF sorted = <<>>
    THEN <<p>>
    ELSE IF Head(sorted)[2] >= p[2]
         THEN <<Head(sorted)>> \o InsertDesc(Tail(sorted), p)
         ELSE <<p>> \o sorted

RECURSIVE SortedDesc(_)
SortedDesc(d) ==
    IF d = <<>>
    THEN <<>>
    ELSE InsertDesc(SortedDesc(SubSeq(d, 1, Len(d) - 1)), d[Len(d)])

\* A variant of NotSent that keeps the items already sent.
NotSent_NoFilter(pairs, sent) ==
    pairs

\* Lines 88-92: the pairs whose item is not in already_sent, in order.
NotSent(pairs, sent) ==
    SelectSeq(pairs, LAMBDA p : p[1] \notin sent)

\* Lines 87-93: top_K_items.
top_K_items(d, sent, k) ==
    Slice(NotSent(SortedDesc(d), sent), k)

\* A variant of SentAfterTimeOut that records the selection as sent.
SentAfterTimeOut_Mark(sent, top) ==
    sent \cup {top[i][1] : i \in 1..Len(top)}

\* Lines 85-99: already_sent after OnTimeOut has dispatched top: the
\* selection is not recorded (and line 86, the flush, is commented out).
SentAfterTimeOut(sent, top) ==
    sent

\* ----------------------------------------------------------- initial state
Init ==
    /\ max_num_lsr \in 1..MaxNumLsr
    /\ lsr_sufficiency_threshold \in Thresholds
    /\ max_num_esr \in 1..MaxNumEsr
    /\ lsr_batch_size \in 1..MaxBatch
    /\ uv_dict = <<>>
    /\ num_lsr_sent = 0
    /\ items_waiting_for_lsr = <<>>
    /\ already_sent = {}
    /\ lsr_out = <<>>
    /\ esr_out = <<>>
    /\ esr_items = {}
    /\ pc = "idle"
    /\ generator_id = 0
    /\ outcome = "none"
    /\ max_computed = <<>>
    /\ threads = <<>>

\* ------------------------------------------- serialized calls (one caller)
\* OnGeneratorCompletion(generator_id, results) is entered.  The results are
\* chosen one by one as the loop of line 48 reaches them.
OnGeneratorCompletion(g) ==
    /\ pc = "idle"
    /\ pc' = "loop"
    /\ generator_id' = g
    /\ esr_out' = <<>>
    /\ UNCHANGED <<config, service, lsr_out, esr_items, outcome, max_computed,
                   threads>>

\* One iteration of the loop of lines 48-57 with its call of
\* enqueue_for_late_stage_ranker (lines 59-66), up to the point where
\* send_to_late_stage_ranker is called.
ProcessResult(item_id, rank, score) ==
    /\ pc = "loop"
    /\ LET uv_estimate ==
               calculate_user_value_estimate(generator_id, rank, score)
           admit == AdmissionTest(uv_estimate, lsr_sufficiency_threshold,
                                  item_id, already_sent)
           append == admit /\ EnqueueTest(num_lsr_sent, max_num_lsr, item_id,
                                          items_waiting_for_lsr)
           queue == IF append
                    THEN Append(items_waiting_for_lsr, item_id)
                    ELSE items_waiting_for_lsr
           flush == append /\ FlushTest(queue, lsr_batch_size)
       IN  /\ uv_dict' = Put(uv_dict, item_id,
                             MergedValue(uv_dict, item_id, uv_estimate))
           /\ outcome' = IF ~admit THEN "rejected"
                         ELSE IF ~append THEN "ignored"
                         ELSE IF ~flush THEN "queued"
                         ELSE "flushed"
           /\ max_computed' =
                  Put(max_computed, item_id,
                      IF item_id \in Keys(max_computed)
                      THEN Max(Get(max_computed, item_id, 0), uv_estimate)
                      ELSE uv_estimate)
           /\ items_waiting_for_lsr' = queue
           /\ pc' = IF flush THEN "send" ELSE "loop"
    /\ esr_out' = <<>>
    /\ UNCHANGED <<config, num_lsr_sent, already_sent, lsr_out, esr_items,
                   generator_id, threads>>

\* Lines 69-78: send_to_late_stage_ranker, called from line 67; the loop of
\* line 48 goes on after it.
send_to_late_stage_ranker ==
    /\ pc = "send"
    /\ LET items_to_send == ItemsToSend(items_waiting_for_lsr, already_sent)
       IN  /\ already_sent' = SentAfterSend(items_waiting_for_lsr, already_sent)
           /\ lsr_out' = Append(lsr_out, items_to_send)
           /\ num_lsr_sent' = CountSent(num_lsr_sent, items_to_send)
           /\ items_waiting_for_lsr' = QueueAfterSend(items_waiting_for_lsr)
    /\ pc' = "loop"
    /\ esr_out' = <<>>
    /\ UNCHANGED <<config, uv_dict, esr_items, generator_id, outcome,
                   max_computed, threads>>

\* The loop of line 48 is exhausted and OnGeneratorCompletion returns.
Return ==
    /\ pc = "loop"
    /\ pc' = "idle"
    /\ generator_id' = 0
    /\ esr_out' = <<>>
    /\ UNCHANGED <<config, service, lsr_out, esr_items, outcome, max_computed,
                   threads>>

\* Lines 85-99: OnTimeOut and the dispatch to the early-stage ranker.
OnTimeOut ==
    /\ pc = "idle"
    /\ LET top == top_K_items(uv_dict, already_sent, max_num_esr)
       IN  /\ esr_out' = <<top>>
           /\ esr_items' = esr_items \cup {top[i][1] : i \in 1..Len(top)}
           /\ already_sent' = SentAfterTimeOut(already_sent, top)
    /\ UNCHANGED <<config, uv_dict, num_lsr_sent, items_waiting_for_lsr,
                   lsr_out, pc, generator_id, outcome, max_computed, threads>>

Next ==
    \/ \E g \in Generators : OnGeneratorCompletion(g)
    \/ \E item_id \in Items, r \in Results :
           r[1] = generator_id /\ ProcessResult(item_id, r[2], r[3])
    \/ send_to_late_stage_ranker
    \/ Return
    \/ OnTimeOut

Spec == Init /\ [][Next]_vars

\* ------------------------------------------- the example configuration
\* The service as the example usage constructs it (lines 103-117), fed with
\* results that all qualify.  Items are named in the order in which they
\* first arrive: a result is for an item seen before or for the next new one.
InitExample ==
    /\ max_num_lsr = ExampleMaxNumLsr
    /\ lsr_sufficiency_threshold = ExampleThreshold
    /\ max_num_esr = ExampleMaxNumEsr
    /\ lsr_batch_size = ExampleBatchSize
    /\ uv_dict = <<>>
    /\ num_lsr_sent = 0
    /\ items_waiting_for_lsr = <<>>
    /\ already_sent = {}
    /\ lsr_out = <<>>
    /\ esr_out = <<>>
    /\ esr_items = {}
    /\ pc = "idle"
    /\ generator_id = 0
    /\ outcome = "none"
    /\ max_computed = <<>>
    /\ threads = <<>>

ItemName(k) == "item_" \o ToString(k)

ArrivingItems ==
    {ItemName(k) : k \in 1..Min(Len(uv_dict) + 1, MaxArrivals)}

NextExample ==
    \/ \E g \in ExampleGenerators : OnGeneratorCompletion(g)
    \/ \E item_id \in ArrivingItems, r \in ExampleResults :
           r[1] = generator_id /\ ProcessResult(item_id, r[2], r[3])
    \/ send_to_late_stage_ranker
    \/ Return
    \/ OnTimeOut

SpecExample == InitExample /\ [][NextExample]_vars

\* ---------------------------------------------- concurrent calls (no lock)
\* The class takes no lock, so callers on several threads interleave between
\* statements.  Each thread has a frame: where it is (pc) and its locals.
\* A step is one statement (or one condition) of the code; the interpreter
\* may switch threads more finely still, which only adds interleavings.
\* `todo` is how many results the thread has yet to deliver in all.
Frame(p, g, i, e, out, det, lst, n, todo) ==
    [pc |-> p, generator_id |-> g, item_id |-> i, uv_estimate |-> e,
     items_to_send |-> out, detached |-> det, list |-> lst, idx |-> n,
     todo |-> todo]

IdleFrame(todo) == Frame("idle", 0, "", 0, <<>>, FALSE, <<>>, 0, todo)

InitConc ==
    /\ max_num_lsr \in 1..MaxNumLsr
    /\ lsr_sufficiency_threshold \in Thresholds
    /\ max_num_esr = MaxNumEsr
    /\ lsr_batch_size \in 1..MaxBatch
    /\ uv_dict = <<>>
    /\ num_lsr_sent = 0
    /\ items_waiting_for_lsr = <<>>
    /\ already_sent = {}
    /\ lsr_out = <<>>
    /\ esr_out = <<>>
    /\ esr_items = {}
    /\ pc = "idle"
    /\ generator_id = 0
    /\ outcome = "none"
    /\ max_computed = <<>>
    /\ threads = [t \in Threads |-> IdleFrame(MaxThreadResults)]

\* What a thread step leaves alone besides the service's fields.
ConcFrame ==
    /\ esr_out' = <<>>
    /\ UNCHANGED <<config, esr_items, pc, generator_id, outcome, max_computed>>

Goto(t, p) == threads' = [threads EXCEPT ![t].pc = p]

\* The list object a thread's loop of line 71 iterates over: the one
\* self.items_waiting_for_lsr still names, or the one it named before
\* another thread's line 78 bound the attribute to a new list.
IterList(t) ==
    IF threads[t].detached THEN threads[t].list ELSE items_waiting_for_lsr

\* Line 43: a thread enters OnGeneratorCompletion(g, results).
T_Call(t, g) ==
    /\ threads[t].pc = "idle"
    /\ threads[t].todo > 0
    /\ threads' = [threads EXCEPT ![t].pc = "for", ![t].generator_id = g]
    /\ ConcFrame
    /\ UNCHANGED <<service, lsr_out>>

\* Lines 48-50: the loop takes the next result and computes its estimate.
T_For(t, item_id, rank, score) ==
    /\ threads[t].pc = "for"
    /\ threads[t].todo > 0
    /\ threads' = [threads EXCEPT
           ![t].pc = "update",
           ![t].todo = threads[t].todo - 1,
           ![t].item_id = item_id,
           ![t].uv_estimate =
               calculate_user_value_estimate(threads[t].generator_id, rank, score)]
    /\ ConcFrame
    /\ UNCHANGED <<service, lsr_out>>

\* Line 48: the results are exhausted and the call returns.
T_Return(t) ==
    /\ threads[t].pc = "for"
    /\ threads' = [threads EXCEPT ![t] = IdleFrame(threads[t].todo)]
    /\ ConcFrame
    /\ UNCHANGED <<service, lsr_out>>

\* Line 51.
T_Update(t) ==
    /\ threads[t].pc = "update"
    /\ uv_dict' = Put(uv_dict, threads[t].item_id,
                      MergedValue(uv_dict, threads[t].item_id,
                                  threads[t].uv_estimate))
    /\ Goto(t, "test")
    /\ ConcFrame
    /\ UNCHANGED <<num_lsr_sent, items_waiting_for_lsr, already_sent, lsr_out>>

\* Lines 53-57.
T_Test(t) ==
    /\ threads[t].pc = "test"
    /\ IF AdmissionTest(threads[t].uv_estimate, lsr_sufficiency_threshold,
                        threads[t].item_id, already_sent)
       THEN Goto(t, "enq_test")
       ELSE Goto(t, "for")
    /\ ConcFrame
    /\ UNCHANGED <<service, lsr_out>>

\* Lines 60-63.
T_EnqTest(t) ==
    /\ threads[t].pc = "enq_test"
    /\ IF EnqueueTest(num_lsr_sent, max_num_lsr, threads[t].item_id,
                      items_waiting_for_lsr)
       THEN Goto(t, "append")
       ELSE Goto(t, "for")
    /\ ConcFrame
    /\ UNCHANGED <<service, lsr_out>>

\* Line 64.
T_Append(t) ==
    /\ threads[t].pc = "append"
    /\ items_waiting_for_lsr' = Append(items_waiting_for_lsr, threads[t].item_id)
    /\ Goto(t, "len_test")
    /\ ConcFrame
    /\ UNCHANGED <<uv_dict, num_lsr_sent, already_sent, lsr_out>>

\* Lines 66-67.
T_LenTest(t) ==
    /\ threads[t].pc = "len_test"
    /\ IF FlushTest(items_waiting_for_lsr, lsr_batch_size)
       THEN Goto(t, "send_init")
       ELSE Goto(t, "for")
    /\ ConcFrame
    /\ UNCHANGED <<service, lsr_out>>

\* Lines 70-71: items_to_send = [] and the loop's iterator is created.
T_SendInit(t) ==
    /\ threads[t].pc = "send_init"
    /\ threads' = [threads EXCEPT
           ![t].pc = "send_loop", ![t].items_to_send = <<>>,
           ![t].detached = FALSE, ![t].list = <<>>, ![t].idx = 0]
    /\ ConcFrame
    /\ UNCHANGED <<service, lsr_out>>

\* Line 71: the iterator yields the next item of the list, or ends.
T_SendNext(t) ==
    /\ threads[t].pc = "send_loop"
    /\ IF threads[t].idx < Len(IterList(t))
       THEN threads' = [threads EXCEPT
                ![t].pc = "send_test",
                ![t].idx = threads[t].idx + 1,
                ![t].item_id = IterList(t)[threads[t].idx + 1]]
       ELSE Goto(t, "print")
    /\ ConcFrame
    /\ UNCHANGED <<service, lsr_out>>

\* Line 72.
T_SendTest(t) ==
    /\ threads[t].pc = "send_test"
    /\ IF threads[t].item_id \notin already_sent
       THEN Goto(t, "send_add")
       ELSE Goto(t, "send_loop")
    /\ ConcFrame
    /\ UNCHANGED <<service, lsr_out>>

\* Lines 73-74.
T_SendAdd(t) ==
    /\ threads[t].pc = "send_add"
    /\ threads' = [threads EXCEPT
           ![t].pc = "send_loop",
           ![t].items_to_send = Append(threads[t].items_to_send, threads[t].item_id)]
    /\ already_sent' = already_sent \cup {threads[t].item_id}
    /\ ConcFrame
    /\ UNCHANGED <<uv_dict, num_lsr_sent, items_waiting_for_lsr, lsr_out>>

\* Line 76: the batch is handed to the late-stage ranker.
T_Print(t) ==
    /\ threads[t].pc = "print"
    /\ lsr_out' = Append(lsr_out, threads[t].items_to_send)
    /\ Goto(t, "count")
    /\ ConcFrame
    /\ UNCHANGED service

\* Line 77.
T_Count(t) ==
    /\ threads[t].pc = "count"
    /\ num_lsr_sent' = CountSent(num_lsr_sent, threads[t].items_to_send)
    /\ Goto(t, "clear")
    /\ ConcFrame
    /\ UNCHANGED <<uv_dict, items_waiting_for_lsr, already_sent, lsr_out>>

\* Line 78: the attribute is bound to a new empty list; a thread still
\* iterating keeps the old list, which nothing changes any more.
T_Clear(t) ==
    /\ threads[t].pc = "clear"
    /\ items_waiting_for_lsr' = QueueAfterSend(items_waiting_for_lsr)
    /\ threads' = [u \in Threads |->
           IF u = t
           THEN [threads[u] EXCEPT !.pc = "for"]
           ELSE IF /\ threads[u].pc \in {"send_loop", "send_test", "send_add"}
                   /\ ~threads[u].detached
                THEN [threads[u] EXCEPT !.detached = TRUE,
                                        !.list = items_waiting_for_lsr]
                ELSE threads[u]]
    /\ ConcFrame
    /\ UNCHANGED <<uv_dict, num_lsr_sent, already_sent, lsr_out>>

\* Lines 85-99: a thread runs OnTimeOut.
T_OnTimeOut(t) ==
    /\ threads[t].pc = "idle"
    /\ LET top == top_K_items(uv_dict, already_sent, max_num_esr)
       IN  /\ esr_out' = <<top>>
           /\ esr_items' = esr_items \cup {top[i][1] : i \in 1..Len(top)}
           /\ already_sent' = SentAfterTimeOut(already_sent, top)
    /\ UNCHANGED <<config, uv_dict, num_lsr_sent, items_waiting_for_lsr,
                   lsr_out, pc, generator_id, outcome, max_computed, threads>>

NextConc ==
    \E t \in Threads :
        \/ \E g \in ConcGenerators : T_Call(t, g)
        \/ \E item_id \in ConcItems, r \in ConcResults :
               r[1] = threads[t].generator_id /\ T_For(t, item_id, r[2], r[3])
        \/ T_Return(t)
        \/ T_Update(t)
        \/ T_Test(t)
        \/ T_EnqTest(t)
        \/ T_Append(t)
        \/ T_LenTest(t)
        \/ T_SendInit(t)
        \/ T_SendNext(t)
        \/ T_SendTest(t)
        \/ T_SendAdd(t)
        \/ T_Print(t)
        \/ T_Count(t)
        \/ T_Clear(t)
        \/ T_OnTimeOut(t)

SpecConc == InitConc /\ [][NextConc]_vars

\* ------------------------------------------------ calls without validation
\* The constructor (lines 21-41) stores whatever sizes it is handed and
\* OnGeneratorCompletion (lines 48-50) takes whatever rank a result carries:
\* the service as it runs on such arguments, under serialized calls.
InitUnvalidated ==
    /\ max_num_lsr \in AnySizes
    /\ lsr_sufficiency_threshold \in Thresholds
    /\ max_num_esr \in AnySizes
    /\ lsr_batch_size \in AnySizes
    /\ uv_dict = <<>>
    /\ num_lsr_sent = 0
    /\ items_waiting_for_lsr = <<>>
    /\ already_sent = {}
    /\ lsr_out = <<>>
    /\ esr_out = <<>>
    /\ esr_items = {}
    /\ pc = "idle"
    /\ generator_id = 0
    /\ outcome = "none"
    /\ max_computed = <<>>
    /\ threads = <<>>

NextUnvalidated ==
    \/ \E g \in Generators : OnGeneratorCompletion(g)
    \/ \E item_id \in AnyRankItems, r \in AnyRankResults :
           r[1] = generator_id /\ ProcessResult(item_id, r[2], r[3])
    \/ send_to_late_stage_ranker
    \/ Return
    \/ OnTimeOut

SpecUnvalidated == InitUnvalidated /\ [][NextUnvalidated]_vars

\* ------------------------------------------------------------------ claims
\* How often item_id occurs in the batches handed to the late-stage ranker.
TimesDispatched(item_id) ==
    Cardinality(UNION {{<<b, k>> : k \in {n \in 1..Len(lsr_out[b]) :
                                            lsr_out[b][n] = item_id}} :
                       b \in 1..Len(lsr_out)})

\* A step that processes the result (item_id, rank, score) of the call in
\* progress.
ResultStep(item_id, r) ==
    r[1] = generator_id /\ ProcessResult(item_id, r[2], r[3])

\* C1 - Sent-set dedup: over any sequence of OnGeneratorCompletion and
\* OnTimeOut calls, an item_id occurs at most once in all the batches
\* dispatched to the late-stage ranker.
C1_SentSetDedup ==
    \A item_id \in Items : TimesDispatched(item_id) <= 1

\* C1 witness: a result for an item dispatched in an earlier batch has just
\* been turned away, after a second batch went out.
C1_Witness ==
    /\ Len(lsr_out) >= 2
    /\ outcome = "rejected"
    /\ Keys(uv_dict) \subseteq already_sent
    /\ \A i \in 1..Len(uv_dict) : uv_dict[i][2] > lsr_sufficiency_threshold

\* C2 as stated - the item is offered to enqueue iff the value stored for it
\* after the update exceeds the threshold and it is not in already_sent.
C2_AdmissionByStoredValue ==
    [][\A item_id \in Items, r \in Results :
          ResultStep(item_id, r) =>
             ((outcome' # "rejected") <=>
                 (/\ Get(uv_dict', item_id, 0) > lsr_sufficiency_threshold
                  /\ item_id \notin already_sent))]_vars

\* C2 amended - the item is offered to enqueue iff the estimate computed from
\* this result strictly exceeds the threshold and the item is not in
\* already_sent; an estimate equal to the threshold does not qualify.
C2_AdmissionByFreshEstimate ==
    [][\A item_id \in Items, r \in Results :
          ResultStep(item_id, r) =>
             ((outcome' # "rejected") <=>
                 (/\ calculate_user_value_estimate(r[1], r[2], r[3])
                        > lsr_sufficiency_threshold
                  /\ item_id \notin already_sent))]_vars

\* C2 witness: a result whose estimate equals the threshold was turned away
\* for an unsent item whose stored value is above the threshold.
C2_Witness ==
    /\ outcome = "rejected"
    /\ generator_id = 1
    /\ \E i \in 1..Len(uv_dict) :
          /\ uv_dict[i][2] > lsr_sufficiency_threshold
          /\ uv_dict[i][1] \notin already_sent
          /\ uv_dict[i][1] \in Range(items_waiting_for_lsr)
    /\ Len(uv_dict) = 1

\* C3 - Flush: it fires exactly when an append makes the queue length reach
\* lsr_batch_size; it dispatches the whole queue in insertion order, adds
\* every flushed item to already_sent, adds the number of distinct items
\* dispatched to num_lsr_sent and leaves the queue empty.
C3_Flush ==
    [][/\ \A item_id \in Items, r \in Results :
             ResultStep(item_id, r) =>
                LET appended ==
                        items_waiting_for_lsr' # items_waiting_for_lsr
                IN  (pc' = "send") <=>
                       (appended /\ Len(items_waiting_for_lsr') = lsr_batch_size)
       /\ (lsr_out' # lsr_out \/ already_sent' # already_sent
             \/ num_lsr_sent' # num_lsr_sent) => pc = "send"
       /\ pc = "send" =>
             /\ lsr_out' = Append(lsr_out, items_waiting_for_lsr)
             /\ already_sent' = already_sent \cup Range(items_waiting_for_lsr)
             /\ num_lsr_sent' =
                   num_lsr_sent + Cardinality(Range(items_waiting_for_lsr))
             /\ Cardinality(Range(items_waiting_for_lsr)) = lsr_batch_size
             /\ items_waiting_for_lsr' = <<>>]_vars

\* C3 witness: a batch of two went out in insertion order after an earlier
\* batch.
C3_Witness ==
    /\ outcome = "flushed"
    /\ Len(lsr_out) >= 1
    /\ Len(lsr_out[Len(lsr_out)]) = 2
    /\ lsr_batch_size = 2
    /\ items_waiting_for_lsr = <<>>
    /\ num_lsr_sent = 2

\* The (item_id, value) pairs of the store whose item is not in already_sent.
UnsentStored == {p \in Range(uv_dict) : p[1] \notin already_sent}

\* C5 - Timeout selection: OnTimeOut hands the early-stage ranker exactly one
\* list of (item_id, estimate) pairs of the store, sorted by estimate
\* descending, without any item of already_sent, cut to max_num_esr entries:
\* it has min(max_num_esr, number of unsent stored items) entries and no
\* omitted unsent item has a strictly higher estimate than an included one.
\* The store {a:5, b:3, c:9, d:1} with max_num_esr = 2 gives [(c,9), (a,5)],
\* and [(c,9), (b,3)] when a has been sent.
C5_TimeoutSelection ==
    [][OnTimeOut =>
          /\ Len(esr_out') = 1
          /\ LET top == esr_out'[1]
                 n == Len(top)
             IN  /\ n = Min(max_num_esr, Cardinality(UnsentStored))
                 /\ Range(top) \subseteq UnsentStored
                 /\ \A i, j \in 1..n : i < j =>
                       top[i][2] >= top[j][2] /\ top[i][1] # top[j][1]
                 /\ \A p \in UnsentStored \ Range(top) :
                       \A i \in 1..n : p[2] <= top[i][2]
          /\ LET store == <<<<"a", 5>>, <<"b", 3>>, <<"c", 9>>, <<"d", 1>>>>
             IN  /\ top_K_items(store, {}, 2) = <<<<"c", 9>>, <<"a", 5>>>>
                 /\ top_K_items(store, {"a"}, 2) = <<<<"c", 9>>, <<"b", 3>>>>
      ]_vars

\* C5 witness: a time-out list that was cut to max_num_esr entries while a
\* sent item with a stored value stayed out of it.
C5_Witness ==
    /\ Len(esr_out) = 1
    /\ Len(esr_out[1]) = max_num_esr
    /\ Cardinality(UnsentStored) > max_num_esr
    /\ already_sent # {}
    /\ \E i \in 1..Len(esr_out[1]) : esr_out[1][i][2] <= 0

\* C6 - Merge-by-max: the value stored for an item is the maximum of all the
\* estimates computed for it, whatever their sign, and an item has a stored
\* value iff a result for it was processed.
C6_MergeByMax ==
    /\ Keys(uv_dict) = Keys(max_computed)
    /\ \A item_id \in Keys(uv_dict) :
          Get(uv_dict, item_id, 0) = Get(max_computed, item_id, 0)

\* C8 - Queue dedup: items_waiting_for_lsr never holds an item_id twice, in
\* the states inside an OnGeneratorCompletion call included.
C8_QueueDedup ==
    \A i, j \in 1..Len(items_waiting_for_lsr) :
        i # j => items_waiting_for_lsr[i] # items_waiting_for_lsr[j]

\* C8 witness: inside a call, a qualifying result for an item that is
\* already waiting in the queue was ignored, with budget left.
C8_Witness ==
    /\ pc = "loop"
    /\ outcome = "ignored"
    /\ num_lsr_sent < max_num_lsr
    /\ Len(items_waiting_for_lsr) >= 1

\* C9 - Enqueue does nothing (queue, already_sent, num_lsr_sent unchanged,
\* nothing dispatched) when num_lsr_sent >= max_num_lsr or the item is in
\* the queue; otherwise it appends the item at the tail, the entries already
\* queued keeping their order.
C9_Enqueue ==
    [][\A item_id \in Items, r \in Results :
          (ResultStep(item_id, r) /\ outcome' # "rejected") =>
             /\ already_sent' = already_sent
             /\ num_lsr_sent' = num_lsr_sent
             /\ lsr_out' = lsr_out
             /\ IF \/ num_lsr_sent >= max_num_lsr
                   \/ item_id \in Range(items_waiting_for_lsr)
                THEN /\ items_waiting_for_lsr' = items_waiting_for_lsr
                     /\ pc' = "loop"
                ELSE items_waiting_for_lsr' =
                         Append(items_waiting_for_lsr, item_id)]_vars

\* C9 witness: a qualifying result for an unsent item was ignored because
\* the budget was used up.
C9_Witness ==
    /\ outcome = "ignored"
    /\ num_lsr_sent >= max_num_lsr
    /\ items_waiting_for_lsr = <<>>
    /\ Keys(uv_dict) \ already_sent # {}

\* C10 - OnTimeOut leaves already_sent, the queue, num_lsr_sent and the
\* store unchanged and dispatches nothing to the late-stage ranker; an item
\* of the early-stage list can therefore still be queued and dispatched to
\* the late-stage ranker by a later OnGeneratorCompletion.
C10_TimeOutFrame ==
    [][OnTimeOut =>
          /\ already_sent' = already_sent
          /\ items_waiting_for_lsr' = items_waiting_for_lsr
          /\ num_lsr_sent' = num_lsr_sent
          /\ uv_dict' = uv_dict
          /\ lsr_out' = lsr_out]_vars

\* C10 witness: the batch just dispatched to the late-stage ranker holds an
\* item that an earlier time-out handed to the early-stage ranker.
C10_Witness ==
    /\ outcome = "flushed"
    /\ Len(lsr_out) >= 1
    /\ esr_out = <<>>
    /\ Range(lsr_out[Len(lsr_out)]) \cap esr_items # {}

\* C4 as stated - in the example configuration (max_num_lsr = 10,
\* lsr_batch_size = 3) the flush that takes num_lsr_sent over max_num_lsr
\* starts with 8 items sent and ends with num_lsr_sent = 11.
C4_OvershootFromEight ==
    [][(num_lsr_sent <= max_num_lsr /\ num_lsr_sent' > max_num_lsr) =>
          (num_lsr_sent = 8 /\ num_lsr_sent' = 11)]_vars

\* C4 amended - in the example configuration num_lsr_sent moves in steps of
\* 3, so the burst starts with 9 items sent: from num_lsr_sent = 9, three
\* new qualifying items are all admitted (the ceiling check reads
\* num_lsr_sent as it is at admission), the flush dispatches all three and
\* num_lsr_sent becomes 12, above max_num_lsr = 10.
C4_OvershootFromNine ==
    [][/\ \A k \in 1..MaxArrivals, r \in ExampleResults :
             LET item_id == ItemName(k)
             IN  (/\ r[1] = generator_id
                  /\ ProcessResult(item_id, r[2], r[3])
                  /\ num_lsr_sent = 9
                  /\ item_id \notin already_sent
                  /\ item_id \notin Range(items_waiting_for_lsr)) =>
                    /\ items_waiting_for_lsr' =
                          Append(items_waiting_for_lsr, item_id)
                    /\ Len(items_waiting_for_lsr) = 2 => pc' = "send"
       /\ (pc = "send" /\ num_lsr_sent = 9) =>
             /\ Len(items_waiting_for_lsr) = 3
             /\ lsr_out' = Append(lsr_out, items_waiting_for_lsr)
             /\ num_lsr_sent' = 12
             /\ num_lsr_sent' > max_num_lsr
       /\ (num_lsr_sent <= max_num_lsr /\ num_lsr_sent' > max_num_lsr) =>
             (num_lsr_sent = 9 /\ num_lsr_sent' = 12)]_vars

\* C4 witness: the fourth batch of three has gone out and the counter is 12.
C4_Witness ==
    /\ max_num_lsr = 10
    /\ lsr_batch_size = 3
    /\ outcome = "flushed"
    /\ Len(lsr_out) = 4
    /\ Len(lsr_out[4]) = 3
    /\ num_lsr_sent = 12

\* The number of items in all the batches handed to the late-stage ranker.
RECURSIVE TotalLen(_)
TotalLen(batches) ==
    IF batches = <<>> THEN 0 ELSE Len(Head(batches)) + TotalLen(Tail(batches))

\* C7 - Serialization: with OnGeneratorCompletion calls running concurrently
\* and their steps interleaved, no item is in the queue twice, no item is
\* dispatched to the late-stage ranker twice, and once the calls have
\* returned num_lsr_sent equals the number of items dispatched.
C7_ConcurrentCallsSerialized ==
    /\ \A i, j \in 1..Len(items_waiting_for_lsr) :
          i # j => items_waiting_for_lsr[i] # items_waiting_for_lsr[j]
    /\ \A item_id \in ConcItems : TimesDispatched(item_id) <= 1
    /\ (\A t \in DOMAIN threads : threads[t].pc = "idle") =>
          num_lsr_sent = TotalLen(lsr_out)

\* C11 - Merge idempotence: in any reachable state, once a result
\* (generator_id, item_id, rank, score) has been processed, processing the
\* same result again leaves the store as it is: the item keeps the estimate
\* stored by the first delivery and no other entry changes.  (The steps of
\* the loop of line 48 are those from pc = "loop" that do not return.)
C11_MergeIdempotence ==
    [][(pc = "loop" /\ pc' # "idle") =>
          \A item_id \in Items, r \in Results :
             ResultStep(item_id, r) =>
                LET uv_estimate ==
                        calculate_user_value_estimate(r[1], r[2], r[3])
                    again == Put(uv_dict', item_id,
                                 MergedValue(uv_dict', item_id, uv_estimate))
                IN  /\ again = uv_dict'
                    /\ (/\ item_id \in Keys(uv_dict)
                        /\ Get(uv_dict, item_id, 0) >= uv_estimate) =>
                           uv_dict' = uv_dict]_vars

\* C11 witness: the qualifying result was delivered again for the one item
\* of the store while that item was waiting in the queue, and the item has
\* the value the first delivery stored.
C11_Witness ==
    /\ pc = "loop"
    /\ generator_id = 3
    /\ outcome = "ignored"
    /\ num_lsr_sent < max_num_lsr
    /\ uv_dict = <<<<items_waiting_for_lsr[1], 29000>>>>
    /\ max_computed = uv_dict

\* C12 - Monotonicity: from one state to the next, whatever call takes the
\* step, every item of the store stays in it and its stored estimate does
\* not decrease.
C12_Monotonicity ==
    [][\A item_id \in Keys(uv_dict) :
          /\ item_id \in Keys(uv_dict')
          /\ Get(uv_dict', item_id, 0) >= Get(uv_dict, item_id, 0)]_vars

\* C12 witness: after a time-out, a result with a lower estimate (1.42, from
\* generator 1) was processed for an item stored at 2.9, and the item is
\* still stored at 2.9.
C12_Witness ==
    /\ pc = "loop"
    /\ generator_id = 1
    /\ outcome = "rejected"
    /\ esr_items # {}
    /\ Len(uv_dict) = 1
    /\ uv_dict[1][2] = 29000
    /\ Keys(uv_dict) = Keys(max_computed)
    /\ items_waiting_for_lsr = <<>>
    /\ already_sent = Keys(uv_dict)

\* C13 - Validation: a non-positive max_num_lsr, max_num_esr or
\* lsr_batch_size is rejected at construction, so no service runs with one,
\* and a result with rank < 1 is rejected: processing it changes neither the
\* store, the queue, already_sent nor num_lsr_sent, and the item is not
\* offered to the queue.
C13_Validation ==
    [][/\ max_num_lsr >= 1
       /\ max_num_esr >= 1
       /\ lsr_batch_size >= 1
       /\ \A item_id \in AnyRankItems, r \in AnyRankResults :
             (ResultStep(item_id, r) /\ r[2] < 1) =>
                /\ UNCHANGED service
                /\ outcome' = "rejected"]_vars

\* The estimate of (generator_id, rank, score) by the formula of line 83
\* with the logarithm's value written out: log2(2) = 1 for ranks 0 and 1,
\* 1 / log2(3) = 0.631 for rank 2.
ExpectedEstimate(g, rank, score) ==
    LET w == WeightsGet(g)
        inv == IF rank <= 1 THEN 1000 ELSE 631
    IN  w[1] * inv + w[2] * score * 10 + w[3] * 1000

\* C15 as stated - rank 1 and rank 2 have the same denominator: a rank-2
\* result stores, for an item new to the store, the estimate of a rank-1
\* result of the same generator and score.
C15_RankOneEqualsRankTwo ==
    [][\A item_id \in AnyRankItems, r \in AnyRankResults :
          (/\ ResultStep(item_id, r)
           /\ r[2] = 2
           /\ item_id \notin Keys(uv_dict)) =>
             Get(uv_dict', item_id, 0) = ExpectedEstimate(r[1], 1, r[3])]_vars

\* C15 amended - the floor max(1 + rank, 2) gives rank 0 the denominator of
\* rank 1 (log2(2) = 1): with equal generator and score, ranks 0 and 1 yield
\* the same estimate, and rank 2, whose denominator is log2(3), yields a
\* strictly lower one (the weights w0 of the model are positive).
C15_RankZeroEqualsRankOne ==
    [][\A item_id \in AnyRankItems, r \in AnyRankResults :
          (ResultStep(item_id, r) /\ item_id \notin Keys(uv_dict)) =>
             LET stored == Get(uv_dict', item_id, 0)
             IN  /\ stored = ExpectedEstimate(r[1], r[2], r[3])
                 /\ r[2] \in {0, 1} =>
                       stored = ExpectedEstimate(r[1], 1, r[3])
                 /\ r[2] = 2 =>
                       stored < ExpectedEstimate(r[1], 1, r[3])]_vars

\* C15 witness: the store holds one item scored at rank 0 or 1 by generator 3
\* (2.9) and one scored at rank 2 by the same generator with the same score
\* (2.531).
C15_Witness ==
    /\ Len(uv_dict) = 2
    /\ uv_dict[1][2] = 29000
    /\ uv_dict[2][2] = 25310
    /\ max_computed = uv_dict

\* C14 - SentSet is append-only: from one state to the next an item of
\* already_sent stays in it, already_sent changes only in a flush (the step
\* of send_to_late_stage_ranker, which adds the items of the queue to it),
\* and num_lsr_sent does not decrease.
C14_SentSetAppendOnly ==
    [][/\ already_sent \subseteq already_sent'
       /\ num_lsr_sent' >= num_lsr_sent
       /\ already_sent' # already_sent =>
             /\ pc = "send"
             /\ already_sent' = already_sent \cup Range(items_waiting_for_lsr)
             /\ lsr_out' # lsr_out]_vars

\* C14 witness: two batches have gone out, the items of both are in
\* already_sent, and a time-out that ran after them has left it alone.
C14_Witness ==
    /\ Len(lsr_out) = 2
    /\ Range(lsr_out[1]) # {}
    /\ Range(lsr_out[2]) # {}
    /\ already_sent = Range(lsr_out[1]) \cup Range(lsr_out[2])
    /\ Len(esr_out) = 1

\* C16 - Under serialized calls no queued item is in already_sent, so the
\* filter of line 72 drops nothing: when send_to_late_stage_ranker is called
\* items_to_send is the whole queue, and every batch handed over has
\* lsr_batch_size items.
C16_QueueDisjointFromSent ==
    /\ Range(items_waiting_for_lsr) \cap already_sent = {}
    /\ pc = "send" =>
          ItemsToSend(items_waiting_for_lsr, already_sent)
             = items_waiting_for_lsr
    /\ \A b \in 1..Len(lsr_out) : Len(lsr_out[b]) = lsr_batch_size

\* C16 witness: send_to_late_stage_ranker is about to run on a full queue
\* while already_sent holds the items of an earlier batch.
C16_Witness ==
    /\ pc = "send"
    /\ already_sent # {}
    /\ Len(items_waiting_for_lsr) = lsr_batch_size
    /\ Len(lsr_out) >= 1

\* C17 - Under serialized calls num_lsr_sent equals the number of items in
\* already_sent, which equals the number of items in all the batches handed
\* to the late-stage ranker.
C17_CounterEqualsSentSet ==
    /\ num_lsr_sent = Cardinality(already_sent)
    /\ Cardinality(already_sent) = TotalLen(lsr_out)

\* C17 witness: a batch of two items has gone out after which the counter
\* is 2.
C17_Witness ==
    /\ pc = "loop"
    /\ outcome = "flushed"
    /\ lsr_batch_size = 2
    /\ num_lsr_sent = 2
    /\ Cardinality(already_sent) = 2
    /\ TotalLen(lsr_out) = 2

\* The values num_lsr_sent may take under the bound of C18 with the ceiling
\* max_num and the batch size batch_size.
CounterValues(max_num, batch_size) ==
    {n \in 0..(max_num + batch_size - 1) : n % batch_size = 0}

\* C18 - The overshoot is bounded: with lsr_batch_size >= 1, in every
\* reachable state num_lsr_sent <= max_num_lsr + lsr_batch_size - 1 and
\* num_lsr_sent is a multiple of lsr_batch_size; for max_num_lsr = 10 and
\* lsr_batch_size = 3 these values are 0, 3, 6, 9, 12.
C18_BoundedOvershoot ==
    lsr_batch_size >= 1 =>
       /\ num_lsr_sent <= max_num_lsr + lsr_batch_size - 1
       /\ num_lsr_sent % lsr_batch_size = 0
       /\ num_lsr_sent \in CounterValues(max_num_lsr, lsr_batch_size)
       /\ CounterValues(ExampleMaxNumLsr, ExampleBatchSize) = {0, 3, 6, 9, 12}

\* C18 witness: the counter stands at the bound, above the ceiling.
C18_Witness ==
    /\ lsr_batch_size >= 2
    /\ num_lsr_sent = max_num_lsr + lsr_batch_size - 1
    /\ num_lsr_sent > max_num_lsr
    /\ items_waiting_for_lsr = <<>>

\* C19 - Budget exhaustion is absorbing: whenever num_lsr_sent >=
\* max_num_lsr the queue is empty, and no step taken from such a state
\* changes the queue, already_sent or num_lsr_sent or hands a batch to the
\* late-stage ranker.
C19_ExhaustionAbsorbing ==
    [][/\ num_lsr_sent >= max_num_lsr =>
             /\ items_waiting_for_lsr = <<>>
             /\ UNCHANGED <<items_waiting_for_lsr, already_sent,
                            num_lsr_sent, lsr_out>>
       /\ num_lsr_sent' >= max_num_lsr => items_waiting_for_lsr' = <<>>]_vars

\* C19 witness: with the budget used up, a qualifying result for an unsent
\* item was ignored and the time-out that followed handed that item to the
\* early-stage ranker.
C19_Witness ==
    /\ num_lsr_sent >= max_num_lsr
    /\ outcome = "ignored"
    /\ pc = "idle"
    /\ Len(esr_out) = 1
    /\ \E i \in 1..Len(esr_out[1]) :
          esr_out[1][i][2] > lsr_sufficiency_threshold
    /\ items_waiting_for_lsr = <<>>

\* C20 - With lsr_batch_size >= 1 every batch handed to the late-stage
\* ranker holds exactly lsr_batch_size distinct items; between calls the
\* queue holds fewer than lsr_batch_size items; and an item waiting in the
\* queue has been dispatched in no batch, a time-out having run or not.
C20_FullBatchesOnly ==
    lsr_batch_size >= 1 =>
       /\ \A b \in 1..Len(lsr_out) :
             /\ Len(lsr_out[b]) = lsr_batch_size
             /\ Cardinality(Range(lsr_out[b])) = lsr_batch_size
       /\ pc = "idle" => Len(items_waiting_for_lsr) < lsr_batch_size
       /\ \A item_id \in Range(items_waiting_for_lsr) :
             TimesDispatched(item_id) = 0

\* C20 witness: a call has returned leaving one item in a queue of batch
\* size 2, and the time-out that followed handed that item to the
\* early-stage ranker; the late-stage ranker has not had it.
C20_Witness ==
    /\ pc = "idle"
    /\ Len(esr_out) = 1
    /\ lsr_batch_size = 2
    /\ Len(items_waiting_for_lsr) = 1
    /\ \E i \in 1..Len(esr_out[1]) :
          esr_out[1][i][1] = items_waiting_for_lsr[1]
    /\ Len(uv_dict) >= 2
    /\ TimesDispatched(items_waiting_for_lsr[1]) = 0

====
